---------------------------- MODULE Spec2Model ----------------------------
(***************************************************************************)
(* Model of the ivshmem guest driver (kvm_ivshmem.c) and of the memtest    *)
(* handshake program (memtest.c).                                          *)
(*                                                                         *)
(*   Spec    one guest: user threads calling kvm_ivshmem_ioctl, the        *)
(*           interrupt handler kvm_ivshmem_interrupt, cancellation signals *)
(*   IOSpec  the data window: kvm_ivshmem_read / _write / _lseek           *)
(*   HSpec   two guests running proc_server and proc_client over the       *)
(*           shared window, each on its own instance of the driver         *)
(*                                                                         *)
(* 32-bit register values are records [hi, lo] of two 16-bit halves, so    *)
(* that 0xFFFFFFFF and (peer << 16) are representable.                     *)
(***************************************************************************)
EXTENDS Integers, Sequences, FiniteSets, TLC

VARIABLES
    \* ---- driver, wait primitives (kvm_ivshmem.c:68-70) ----
    sema,        \* count of `static struct semaphore sema`
    event_num,   \* `static int event_num`
    pc,          \* per user thread: where it is inside kvm_ivshmem_ioctl
    how,         \* per user thread: how its current wait ended so far
    ev,          \* the last event: an ioctl call that returned, or a handler run
    hist,        \* history since the count was last 0: deliveries, completed downs
    \* ---- driver, data window ----
    base_addr,   \* kvm_ivshmem_dev.base_addr: "NULL" or "mapped"
    mem,         \* the bytes of the window, index 0..ioaddr_size-1
    f_pos,       \* filp->f_pos
    io,          \* the last read/write/lseek call and what it did
    \* ---- handshake (memtest.c) ----
    h_pc,        \* position of proc_server / proc_client
    h_dev,       \* per guest: the driver's sema and event_num
    wire,        \* doorbell messages written and not yet delivered
    vm_control,  \* the control block at the start of the window
    test_pmem,   \* the integer slots after the control block
    h_loc,       \* per role: memtest()'s locals (data, i, n, ret_val)
    h_hist       \* history: who caused the last event, doorbell requests made

drvVars == <<sema, event_num, pc, how, ev, hist>>
ioVars  == <<base_addr, mem, f_pos, io>>
hsVars  == <<h_pc, h_dev, wire, vm_control, test_pmem, h_loc, h_hist>>
vars    == <<drvVars, ioVars, hsVars>>

DrvOnly == UNCHANGED <<ioVars, hsVars>>
IoOnly  == UNCHANGED <<drvVars, hsVars>>
HsOnly  == UNCHANGED <<drvVars, ioVars>>

---------------------------------------------------------------------------
(* Bounds of the model *)

NThreads  == 2   \* user threads of the one guest of Spec
MaxDeliv  == 3   \* semaphore-signal interrupts dispatched per sema_init epoch
MaxArm    == 1   \* largest count passed to set_sema
MaxPeer   == 1   \* largest peer id used as a ring target

Threads == 1..NThreads

---------------------------------------------------------------------------
(* 32-bit values *)

U16Mod == 65536

U32(hi, lo) == [hi |-> hi, lo |-> lo]
U32Zero     == U32(0, 0)
U32AllOnes  == U32(U16Mod - 1, U16Mod - 1)          \* 0xFFFFFFFF
U32FromNat(n) == U32((n \div U16Mod) % U16Mod, n % U16Mod)   \* n < 2^31
\* x << 16 on a 32-bit unsigned int: the upper half is shifted out
U32Shl16(x) == U32(x.lo, 0)

---------------------------------------------------------------------------
(* enum ivshmem_ioctl, kvm_ivshmem.c:82 *)

set_sema       == 0
down_sema      == 1
empty          == 2
wait_event     == 3
wait_event_irq == 4
read_ivposn    == 5
read_livelist  == 6
sema_irq       == 7

\* memtest.c:19-21
IOCTL_WAIT_IRQ     == 3
IOCTL_READ_IV_POSN == 5
IOCTL_DOORBELL     == 8

\* the switch of kvm_ivshmem_ioctl: which case a command code selects
IoctlCase(cmd) ==
    CASE cmd = set_sema       -> "set_sema"
      [] cmd = down_sema      -> "down_sema"
      [] cmd = empty          -> "ring"
      [] cmd = wait_event     -> "wait_event"
      [] cmd = wait_event_irq -> "ring"
      [] cmd = read_ivposn    -> "read_ivposn"
      [] cmd = sema_irq       -> "ring"
      [] OTHER                -> "default"

\* msg = ((arg & 0xff) << 8) + (cmd & 0xff), as a 32-bit value
RingMsg(cmd, arg) == U32FromNat(((arg.lo % 256) * 256) + (cmd % 256))

\* a doorbell write on every path of the switch (not this code)
DoorbellWritesAlways(cmd, arg) == <<RingMsg(cmd, arg)>>

\* the sequence of values kvm_ivshmem_ioctl(cmd, arg) writes to Doorbell
DoorbellWrites(cmd, arg) ==
    IF IoctlCase(cmd) = "ring" THEN <<RingMsg(cmd, arg)>> ELSE <<>>

\* kvm_ivshmem_ioctl ends with `return 0` on every path
IoctlReturn(cmd, rv) == 0

---------------------------------------------------------------------------
(* kvm_ivshmem_interrupt *)

\* a handler that tests only `!status` (not this code: all-ones is tested too)
IsSpuriousZeroOnly(status) == status = U32Zero

\* if (!status || (status == 0xFFFFFFFF)) return IRQ_NONE;
IsSpurious(status) == status = U32Zero \/ status = U32AllOnes

\* up() of a binary semaphore, which saturates at 1 (not this code: it counts)
SemaUpBinary(s) == 1

\* up(&sema)
SemaUp(s) == s + 1

\* an `else` with no test of the status (not this code)
IsEventIrqElse(status) == TRUE

\* status == sema_irq / status == wait_event_irq: the whole register is compared
IsSemaIrq(status)  == status = U32FromNat(sema_irq)
IsEventIrq(status) == status = U32FromNat(wait_event_irq)

\* the handler's effect on (sema, event_num), its return value and whom it wakes
Dispatch(status, s, e) ==
    IF IsSpurious(status)
    THEN [ret |-> "IRQ_NONE", sema |-> s, event_num |-> e, woke |-> "none"]
    ELSE IF IsSemaIrq(status)
    THEN [ret |-> "IRQ_HANDLED", sema |-> SemaUp(s), event_num |-> e, woke |-> "sema"]
    ELSE IF IsEventIrq(status)
    THEN [ret |-> "IRQ_HANDLED", sema |-> s, event_num |-> 1, woke |-> "event"]
    ELSE [ret |-> "IRQ_HANDLED", sema |-> s, event_num |-> e, woke |-> "none"]

---------------------------------------------------------------------------
(* the blocking primitives used by kvm_ivshmem_ioctl *)

\* down_interruptible: take a unit at once when the count is positive
DownTakes(s) == s > 0

\* wait_event_interruptible(wait_queue, (event_num == 1)): the condition is
\* tested before sleeping and after every wake-up
EventCond(e) == e = 1

\* a wait that sleeps before testing the condition (not this code)
WaitEventEnterBlind(e) == "event_sleep"

\* where a wait_event caller goes on entry
WaitEventEnter(e) == IF EventCond(e) THEN "event_woken" ELSE "event_sleep"

---------------------------------------------------------------------------
(* Spec: one guest.  User threads call kvm_ivshmem_ioctl; the device raises *)
(* interrupts; a signal may cancel a sleeping thread.                       *)

\* values the IntrStatus register may hold when the handler runs
StatusValues ==
    { U32Zero, U32AllOnes,
      U32FromNat(sema_irq), U32FromNat(wait_event_irq), U32FromNat(empty),
      U32(1, sema_irq), U32(1, wait_event_irq), U32(1, empty) }

\* ioctl arguments: counts for set_sema, peer ids (plain and pre-shifted) for rings
ArmArgs     == { U32FromNat(n) : n \in 0..MaxArm }
RingArgs    == { U32FromNat(p) : p \in 0..MaxPeer } \cup { U32(p, 0) : p \in 1..MaxPeer }
RingCmds    == { empty, wait_event_irq, sema_irq }
BadCmds     == { read_livelist, IOCTL_DOORBELL, 256 + sema_irq }
DefaultArgs == { U32(MaxPeer, 0) }

\* ev.bell: the values the call wrote to the Doorbell register
\* ev.late: the wait_event callers that had been released, but had not yet
\*          cleared the flag, when the handler set it
NoEv == [kind |-> "none", cmd |-> -1, arg |-> U32Zero, rv |-> "unset", ret |-> 0,
         how |-> "none", bell |-> <<>>, status |-> U32Zero, woke |-> "none",
         late |-> {}]

\* a kvm_ivshmem_ioctl call that has returned
Returned(cmd, arg, rv, h) ==
    [NoEv EXCEPT !.kind = "ioctl", !.cmd = cmd, !.arg = arg, !.rv = rv,
                 !.ret = IoctlReturn(cmd, rv), !.how = h,
                 !.bell = DoorbellWrites(cmd, arg)]

\* a run of kvm_ivshmem_interrupt
Handled(status, d) ==
    [NoEv EXCEPT !.kind = "irq", !.status = status, !.rv = d.ret, !.woke = d.woke]

\* history kept while the count started at 0 and no sema_init or signal came since
CleanHist == [clean |-> TRUE, deliv |-> 0, downs |-> 0]
DirtyHist == [clean |-> FALSE, deliv |-> 0, downs |-> 0]
Count(h, field) == IF h.clean THEN [h EXCEPT ![field] = @ + 1] ELSE h

DrvInit ==
    /\ sema = 0                      \* sema_init(&sema, 0) in probe
    /\ event_num = 0
    /\ pc = [t \in Threads |-> "idle"]
    /\ how = [t \in Threads |-> "none"]
    /\ ev = NoEv
    /\ hist = CleanHist

\* case set_sema: sema_init(&sema, arg).  Re-initialising a semaphore that has
\* sleepers is outside its contract: each sleeper either stays queued or is lost
\* from the wait list (then only a signal ends its sleep).
ioctl_set_sema(t, arg) ==
    /\ pc[t] = "idle"
    /\ \E keep \in SUBSET { u \in Threads : pc[u] = "down_sleep" } :
           pc' = [u \in Threads |->
                    IF pc[u] = "down_sleep" /\ u \notin keep THEN "orphan" ELSE pc[u]]
    /\ sema' = arg.lo
    /\ hist' = IF arg.lo = 0 THEN CleanHist ELSE DirtyHist
    /\ ev' = Returned(set_sema, arg, "unset", "none")
    /\ UNCHANGED <<event_num, how>>
    /\ DrvOnly

\* case down_sema: rv = down_interruptible(&sema)
ioctl_down_sema(t) ==
    /\ pc[t] = "idle"
    /\ IF DownTakes(sema)
       THEN /\ sema' = sema - 1
            /\ hist' = Count(hist, "downs")
            /\ ev' = Returned(down_sema, U32Zero, "0", "nowait")
            /\ pc' = pc
       ELSE /\ pc' = [pc EXCEPT ![t] = "down_sleep"]
            /\ UNCHANGED <<sema, hist, ev>>
    /\ UNCHANGED <<event_num, how>>
    /\ DrvOnly

\* a sleeper in down_interruptible gets the unit an up() made available
down_wake(t) ==
    /\ pc[t] = "down_sleep"
    /\ DownTakes(sema)
    /\ sema' = sema - 1
    /\ hist' = Count(hist, "downs")
    /\ ev' = Returned(down_sema, U32Zero, "0", "slept")
    /\ pc' = [pc EXCEPT ![t] = "idle"]
    /\ UNCHANGED <<event_num, how>>
    /\ DrvOnly

\* a signal ends down_interruptible with -EINTR; rv is never looked at
signal_down(t) ==
    /\ pc[t] \in {"down_sleep", "orphan"}
    /\ pc' = [pc EXCEPT ![t] = "idle"]
    /\ hist' = DirtyHist
    /\ ev' = Returned(down_sema, U32Zero, "-EINTR", "intr")
    /\ UNCHANGED <<sema, event_num, how>>
    /\ DrvOnly

\* case empty / wait_event_irq / sema_irq: writel(msg, regs + Doorbell)
ioctl_ring(t, cmd, arg) ==
    /\ pc[t] = "idle"
    /\ IoctlCase(cmd) = "ring"
    /\ ev' = Returned(cmd, arg, "unset", "none")
    /\ UNCHANGED <<sema, event_num, pc, how, hist>>
    /\ DrvOnly

\* case wait_event: wait_event_interruptible(wait_queue, (event_num == 1))
ioctl_wait_event(t) ==
    /\ pc[t] = "idle"
    /\ pc' = [pc EXCEPT ![t] = WaitEventEnter(event_num)]
    /\ how' = [how EXCEPT ![t] =
                 IF WaitEventEnter(event_num) = "event_woken" THEN "nowait" ELSE "none"]
    /\ UNCHANGED <<sema, event_num, ev, hist>>
    /\ DrvOnly

\* a sleeper on wait_queue finds the condition true
event_wake(t) ==
    /\ pc[t] = "event_sleep"
    /\ EventCond(event_num)
    /\ pc' = [pc EXCEPT ![t] = "event_woken"]
    /\ how' = [how EXCEPT ![t] = "slept"]
    /\ UNCHANGED <<sema, event_num, ev, hist>>
    /\ DrvOnly

\* a signal ends wait_event_interruptible (the condition is tested first: a
\* sleeper that finds it true returns as woken); its result is discarded
signal_event(t) ==
    /\ pc[t] = "event_sleep"
    /\ ~EventCond(event_num)
    /\ pc' = [pc EXCEPT ![t] = "event_woken"]
    /\ how' = [how EXCEPT ![t] = "intr"]
    /\ hist' = DirtyHist
    /\ UNCHANGED <<sema, event_num, ev>>
    /\ DrvOnly

\* a wait_event case that leaves the flag set on return (not this code)
event_clear_sets(t) ==
    /\ pc[t] = "event_woken"
    /\ event_num' = 1
    /\ pc' = [pc EXCEPT ![t] = "idle"]
    /\ how' = [how EXCEPT ![t] = "none"]
    /\ ev' = Returned(wait_event, U32Zero, "unset", how[t])
    /\ UNCHANGED <<sema, hist>>
    /\ DrvOnly

\* event_num = 0; break; return 0
event_clear(t) ==
    /\ pc[t] = "event_woken"
    /\ event_num' = 0
    /\ pc' = [pc EXCEPT ![t] = "idle"]
    /\ how' = [how EXCEPT ![t] = "none"]
    /\ ev' = Returned(wait_event, U32Zero, "unset", how[t])
    /\ UNCHANGED <<sema, hist>>
    /\ DrvOnly

\* case read_ivposn: readl(regs + IVPosition), copy_to_user
ioctl_read_ivposn(t) ==
    /\ pc[t] = "idle"
    /\ ev' = Returned(read_ivposn, U32Zero, "0", "none")
    /\ UNCHANGED <<sema, event_num, pc, how, hist>>
    /\ DrvOnly

\* default: "bad ioctl"
ioctl_default(t, cmd, arg) ==
    /\ pc[t] = "idle"
    /\ IoctlCase(cmd) = "default"
    /\ ev' = Returned(cmd, arg, "unset", "none")
    /\ UNCHANGED <<sema, event_num, pc, how, hist>>
    /\ DrvOnly

\* the interrupt handler, run with the value read from IntrStatus.
\* dev_instance is &kvm_ivshmem_dev on every registration, never NULL.
interrupt(status) ==
    /\ Dispatch(status, sema, event_num).sema <= MaxDeliv
    /\ status = U32FromNat(sema_irq) => hist.deliv < MaxDeliv
    /\ sema' = Dispatch(status, sema, event_num).sema
    /\ event_num' = Dispatch(status, sema, event_num).event_num
    /\ ev' = [Handled(status, Dispatch(status, sema, event_num)) EXCEPT !.late =
                IF Dispatch(status, sema, event_num).woke = "event"
                THEN { t \in Threads : pc[t] = "event_woken" /\ how[t] # "intr" }
                ELSE {}]
    /\ hist' = IF status = U32FromNat(sema_irq) THEN Count(hist, "deliv") ELSE hist
    /\ UNCHANGED <<pc, how>>
    /\ DrvOnly

DrvNext ==
    \/ \E t \in Threads, a \in ArmArgs : ioctl_set_sema(t, a)
    \/ \E t \in Threads : ioctl_down_sema(t)
    \/ \E t \in Threads : down_wake(t)
    \/ \E t \in Threads : signal_down(t)
    \/ \E t \in Threads, c \in RingCmds, a \in RingArgs : ioctl_ring(t, c, a)
    \/ \E t \in Threads : ioctl_wait_event(t)
    \/ \E t \in Threads : event_wake(t)
    \/ \E t \in Threads : signal_event(t)
    \/ \E t \in Threads : event_clear(t)
    \/ \E t \in Threads : ioctl_read_ivposn(t)
    \/ \E t \in Threads, c \in BadCmds, a \in DefaultArgs : ioctl_default(t, c, a)
    \/ \E st \in StatusValues : interrupt(st)

---------------------------------------------------------------------------
(* IOSpec, PIOSpec: the data window through read / write / lseek and       *)
(* through pread / pwrite                                                  *)

ioaddr_size == 2   \* kvm_ivshmem_dev.ioaddr_size, bytes in the window
MaxByte     == 1   \* bytes take the values 0..MaxByte
MaxOver     == 1   \* explicit positions (pread/pwrite, lseek) go up to ioaddr_size + MaxOver
MaxNeg      == 1   \* lseek targets go down to -MaxNeg

Byte    == 0..MaxByte
Window  == 0..(ioaddr_size - 1)
Lens    == 0..(ioaddr_size + 1)
Offsets == 0..(ioaddr_size + MaxOver)

\* `unsigned long` arithmetic wraps; every modelled offset and length is far
\* below the modulus, which stands for 2^BITS_PER_LONG
ULongMod == 2 ^ 30

EFAULT == 14

\* a transfer length taken as requested (not this code: it is clamped)
ClampLenNone(offset, len) == len

\* if (len > ioaddr_size - offset) len = ioaddr_size - offset;
\* ioaddr_size is unsigned int, offset unsigned long: the difference wraps
ClampLen(offset, len) ==
    LET rem == (ioaddr_size - offset) % ULongMod
    IN  IF len > rem THEN rem ELSE len

\* the common body of kvm_ivshmem_read and kvm_ivshmem_write, called with
\* *poffset = offset; `uncopied` is what copy_to_user / copy_from_user returns.
\* Gives the return value, the new *poffset and the window indices copied.
Transfer(base, offset, len, uncopied) ==
    LET n == ClampLen(offset, len)
        k == IF uncopied > n THEN n ELSE uncopied
    IN  IF base = "NULL" THEN [ret |-> 0, pos |-> offset, idx |-> {}]
        ELSE IF n = 0 THEN [ret |-> 0, pos |-> offset, idx |-> {}]
        ELSE IF k > 0
        THEN [ret |-> 0 - EFAULT, pos |-> offset, idx |-> offset..(offset + n - k - 1)]
        ELSE [ret |-> n, pos |-> offset + n, idx |-> offset..(offset + n - 1)]

NoIo == [op |-> "none", off |-> 0, len |-> 0, unc |-> 0, ret |-> 0, pos |-> 0,
         idx |-> {}, data |-> <<>>]

\* an attached device with a zero-filled window
IoInit0 ==
    /\ base_addr = "mapped"
    /\ mem = [i \in Window |-> 0]
    /\ f_pos = 0
    /\ io = NoIo

IoInit ==
    /\ base_addr \in {"NULL", "mapped"}   \* the device node exists even when probe failed
    /\ mem \in [Window -> Byte]
    /\ f_pos = 0
    /\ io = NoIo

\* a copy that delivers zeroes whatever the window holds (not this code)
DeliveredBlank(r, offset, junk) == [j \in 1..Cardinality(r.idx) |-> 0]

\* the bytes copy_to_user delivers: window bytes, or whatever lies behind the
\* mapping for an index outside it
Delivered(r, offset, junk) ==
    [j \in 1..Cardinality(r.idx) |->
        IF (offset + j - 1) \in Window THEN mem[offset + j - 1] ELSE junk[offset + j - 1]]

\* what may lie behind the mapping at the indices in D: not known to the
\* driver; a run of byte values starting anywhere
Beyond(D) == { [i \in D |-> (b + i) % (MaxByte + 1)] : b \in Byte }

\* kvm_ivshmem_read(filp, buffer, len, poffset)
ReadAt(op, offset, len, uncopied) ==
    LET r == Transfer(base_addr, offset, len, uncopied)
    IN  \E junk \in Beyond(r.idx \ Window) :
            /\ io' = [op   |-> op, off |-> offset, len |-> len, unc |-> uncopied,
                      ret  |-> r.ret, pos |-> r.pos, idx |-> r.idx,
                      data |-> Delivered(r, offset, junk)]
            /\ UNCHANGED <<base_addr, mem>>

\* kvm_ivshmem_write(filp, buffer, len, poffset), buffer holding `data`
WriteAt(op, offset, data, uncopied) ==
    LET r == Transfer(base_addr, offset, Len(data), uncopied)
    IN  /\ io' = [op   |-> op, off |-> offset, len |-> Len(data), unc |-> uncopied,
                  ret  |-> r.ret, pos |-> r.pos, idx |-> r.idx, data |-> data]
        /\ mem' = [i \in Window |-> IF i \in r.idx THEN data[i - offset + 1] ELSE mem[i]]
        /\ UNCHANGED base_addr

\* read(2): poffset is the file position (the VFS refuses a negative one)
sys_read(len, uncopied) ==
    /\ f_pos >= 0
    /\ ReadAt("read", f_pos, len, uncopied)
    /\ f_pos' = io'.pos
    /\ IoOnly

\* pread(2): poffset is the caller's position, f_pos is left alone
sys_pread(offset, len, uncopied) ==
    /\ ReadAt("pread", offset, len, uncopied)
    /\ f_pos' = f_pos
    /\ IoOnly

sys_write(data, uncopied) ==
    /\ f_pos >= 0
    /\ WriteAt("write", f_pos, data, uncopied)
    /\ f_pos' = io'.pos
    /\ IoOnly

sys_pwrite(offset, data, uncopied) ==
    /\ WriteAt("pwrite", offset, data, uncopied)
    /\ f_pos' = f_pos
    /\ IoOnly

\* kvm_ivshmem_lseek: [retval, new f_pos]
Seek(pos, offset, origin) ==
    LET target == IF origin = "SEEK_CUR" THEN offset + pos ELSE offset
    IN  IF origin \in {"SEEK_CUR", "SEEK_SET"}
        THEN [retval |-> target,
              f_pos  |-> IF target > ioaddr_size THEN ioaddr_size ELSE target]
        ELSE [retval |-> -1, f_pos |-> pos]

sys_lseek(offset, origin) ==
    LET k == Seek(f_pos, offset, origin)
    IN  /\ k.f_pos >= 0 - MaxNeg
        /\ f_pos' = k.f_pos
        /\ io' = [NoIo EXCEPT !.op = origin, !.off = offset, !.ret = k.retval, !.pos = k.f_pos]
        /\ UNCHANGED <<base_addr, mem>>
        /\ IoOnly

\* the caller's buffers: every byte sequence that fits the window, and for
\* the one length that does not fit a run of byte values starting anywhere
Payloads ==
    UNION { [1..n -> Byte] : n \in 0..ioaddr_size } \cup
    { [j \in 1..(ioaddr_size + 1) |-> (b + j) % (MaxByte + 1)] : b \in Byte }

\* the calls that go through the file position
IoNext ==
    \/ \E n \in Lens, u \in 0..1 : sys_read(n, u)
    \/ \E d \in Payloads, u \in 0..1 : sys_write(d, u)
    \/ \E o \in (0 - MaxNeg)..(ioaddr_size + MaxOver),
          g \in {"SEEK_SET", "SEEK_CUR", "SEEK_END"} : sys_lseek(o, g)

\* the calls that bring their own position
PioNext ==
    \/ \E o \in Offsets, n \in Lens, u \in 0..1 : sys_pread(o, n, u)
    \/ \E o \in Offsets, d \in Payloads, u \in 0..1 : sys_pwrite(o, d, u)

---------------------------------------------------------------------------
(* HSpec: proc_server and proc_client of memtest.c, one per guest, over the *)
(* same window.  The model starts where main() calls the role function.     *)

test_mem_size == 2   \* integer slots after the control block
TEST_LOOPS    == 2   \* passes of memtest over the slots (500 in memtest.c, scaled)
MaxSeed       == 1   \* rand() gives 0..MaxSeed

Roles   == {"server", "client"}
Slots   == 0..(test_mem_size - 1)
Seeds   == 0..MaxSeed

\* the IVPosition register of each guest
IVPosition == [server |-> 1, client |-> 2]

\* main(): ioctl(IOCTL_READ_IV_POSN, &vm_id); vm_id = vm_id << 16;
vm_id(r) == U32Shl16(U32FromNat(IVPosition[r]))

DONE == U32(39321, 39321)     \* 0x99999999

RECURSIVE Xor(_, _)
Xor(a, b) ==
    IF a = 0 THEN b
    ELSE IF b = 0 THEN a
    ELSE (((a % 2) + (b % 2)) % 2) + 2 * Xor(a \div 2, b \div 2)

\* a pattern that ignores the slot index (not this code)
PatternSeedOnly(n, data) == data

\* memtest's pattern: (n ^ data)
Pattern(n, data) == Xor(n, data)

\* the transport: a value written to Doorbell raises an interrupt in the guest
\* whose id is in the upper half, with the lower half as its status
Routed(from, msg) ==
    { [to |-> r, status |-> U32(0, msg.lo), from |-> from] :
        r \in { q \in Roles : IVPosition[q] = msg.hi } }

\* interrupts raised from outside the pair (another peer, the host)
HExtStatus == { U32FromNat(wait_event_irq), U32AllOnes }

HsInit ==
    /\ h_pc = [server |-> "s_init", client |-> "c_init"]
    /\ h_dev = [r \in Roles |-> [sema |-> 0, event_num |-> 0]]
    /\ wire = {}
    /\ vm_control = [iv_server |-> U32Zero, iv_client |-> U32Zero, ready |-> 0,
                     start |-> 0, data |-> 0, done |-> U32Zero, shutdown |-> 0]
    /\ test_pmem = [n \in Slots |-> 0]
    /\ h_loc = [r \in Roles |-> [data |-> 0, i |-> 0, n |-> 0, ret_val |-> 0]]
    /\ h_hist = [kick |-> [r \in Roles |-> {}], rel |-> [r \in Roles |-> {}],
                 ext |-> FALSE, sig |-> FALSE]

\* ioctl(pmem_fd, IOCTL_WAIT_IRQ): entry into the driver's wait_event case
HWaitCall(r, at, sleep, woken) ==
    /\ h_pc[r] = at
    /\ IoctlCase(IOCTL_WAIT_IRQ) = "wait_event"
    /\ h_pc' = [h_pc EXCEPT ![r] =
                  IF WaitEventEnter(h_dev[r].event_num) = "event_woken" THEN woken ELSE sleep]
    /\ UNCHANGED <<h_dev, wire, vm_control, test_pmem, h_loc, h_hist>>
    /\ HsOnly

\* the sleeper finds the condition true
HWake(r, sleep, woken) ==
    /\ h_pc[r] = sleep
    /\ EventCond(h_dev[r].event_num)
    /\ h_pc' = [h_pc EXCEPT ![r] = woken]
    /\ UNCHANGED <<h_dev, wire, vm_control, test_pmem, h_loc, h_hist>>
    /\ HsOnly

\* event_num = 0; return 0;  the caller's `res < 0` test then fails
HClear(r, woken, next) ==
    /\ h_pc[r] = woken
    /\ h_dev' = [h_dev EXCEPT ![r].event_num = 0]
    /\ h_pc' = [h_pc EXCEPT ![r] = IF IoctlReturn(IOCTL_WAIT_IRQ, "unset") < 0
                                   THEN "exit_failed" ELSE next]
    /\ h_hist' = [h_hist EXCEPT !.kick[r] = {}, !.rel[r] = h_hist.kick[r]]
    /\ UNCHANGED <<wire, vm_control, test_pmem, h_loc>>
    /\ HsOnly

\* ioctl(pmem_fd, IOCTL_DOORBELL, target)
HRing(r, at, target, next) ==
    /\ h_pc[r] = at
    /\ wire' = wire \cup
                UNION { Routed(r, DoorbellWrites(IOCTL_DOORBELL, target)[k]) :
                          k \in 1..Len(DoorbellWrites(IOCTL_DOORBELL, target)) }
    /\ h_pc' = [h_pc EXCEPT ![r] = IF IoctlReturn(IOCTL_DOORBELL, "unset") < 0
                                   THEN "exit_failed" ELSE next]
    /\ UNCHANGED <<h_dev, vm_control, test_pmem, h_loc, h_hist>>
    /\ HsOnly

\* memtest(vm_control->data, verify): the argument is read at the call
HStart(r, at, next) ==
    /\ h_pc[r] = at
    /\ h_loc' = [h_loc EXCEPT ![r] = [data |-> vm_control.data, i |-> 0, n |-> 0, ret_val |-> 0]]
    /\ h_pc' = [h_pc EXCEPT ![r] = next]

\* the loop counters of memtest after one slot: [i, n, finished]
Advance(l) ==
    IF l.n + 1 < test_mem_size THEN [i |-> l.i, n |-> l.n + 1, fin |-> FALSE]
    ELSE [i |-> l.i + 1, n |-> 0, fin |-> l.i + 1 >= TEST_LOOPS]

(* proc_server *)

\* vm_control->iv_server = vm_id << 16; vm_control->shutdown = 0;
s_init ==
    /\ h_pc["server"] = "s_init"
    /\ vm_control' = [vm_control EXCEPT !.iv_server = U32Shl16(vm_id("server")),
                                        !.shutdown = 0]
    /\ h_pc' = [h_pc EXCEPT !["server"] = "s_call"]
    /\ UNCHANGED <<h_dev, wire, test_pmem, h_loc, h_hist>>
    /\ HsOnly

s_call  == HWaitCall("server", "s_call", "s_sleep", "s_woken")
s_wake  == HWake("server", "s_sleep", "s_woken")
s_clear == HClear("server", "s_woken", "s_start")

\* memtest(vm_control->data, 0);
s_start ==
    /\ HStart("server", "s_start", "s_write")
    /\ UNCHANGED <<h_dev, wire, vm_control, test_pmem, h_hist>>
    /\ HsOnly

\* test_pmem[n] = (n ^ data);
s_write ==
    /\ h_pc["server"] = "s_write"
    /\ test_pmem' = [test_pmem EXCEPT ![h_loc["server"].n] =
                       Pattern(h_loc["server"].n, h_loc["server"].data)]
    /\ h_loc' = [h_loc EXCEPT !["server"].i = Advance(h_loc["server"]).i,
                              !["server"].n = Advance(h_loc["server"]).n]
    /\ h_pc' = [h_pc EXCEPT !["server"] =
                  IF Advance(h_loc["server"]).fin THEN "s_done" ELSE "s_write"]
    /\ UNCHANGED <<h_dev, wire, vm_control, h_hist>>
    /\ HsOnly

\* vm_control->done = DONE;
s_done ==
    /\ h_pc["server"] = "s_done"
    /\ vm_control' = [vm_control EXCEPT !.done = DONE]
    /\ h_pc' = [h_pc EXCEPT !["server"] = "s_ring"]
    /\ UNCHANGED <<h_dev, wire, test_pmem, h_loc, h_hist>>
    /\ HsOnly

\* ioctl(pmem_fd, IOCTL_DOORBELL, vm_control->iv_client);
s_ring == HRing("server", "s_ring", vm_control.iv_client, "s_check")

\* } while(!vm_control->shutdown);
s_check ==
    /\ h_pc["server"] = "s_check"
    /\ h_pc' = [h_pc EXCEPT !["server"] =
                  IF vm_control.shutdown = 0 THEN "s_call" ELSE "s_exit"]
    /\ UNCHANGED <<h_dev, wire, vm_control, test_pmem, h_loc, h_hist>>
    /\ HsOnly

(* proc_client *)

\* vm_control->iv_client = vm_id << 16;
c_init ==
    /\ h_pc["client"] = "c_init"
    /\ vm_control' = [vm_control EXCEPT !.iv_client = U32Shl16(vm_id("client"))]
    /\ h_pc' = [h_pc EXCEPT !["client"] = "c_call0"]
    /\ UNCHANGED <<h_dev, wire, test_pmem, h_loc, h_hist>>
    /\ HsOnly

c_call0  == HWaitCall("client", "c_call0", "c_sleep0", "c_woken0")
c_wake0  == HWake("client", "c_sleep0", "c_woken0")
c_clear0 == HClear("client", "c_woken0", "c_seed")

\* vm_control->ready = 0; vm_control->data = rand();
c_seed(d) ==
    /\ h_pc["client"] = "c_seed"
    /\ vm_control' = [vm_control EXCEPT !.ready = 0, !.data = d]
    /\ h_pc' = [h_pc EXCEPT !["client"] = "c_ring"]
    /\ UNCHANGED <<h_dev, wire, test_pmem, h_loc, h_hist>>
    /\ HsOnly

\* ioctl(pmem_fd, IOCTL_DOORBELL, vm_control->iv_server);
c_ring == HRing("client", "c_ring", vm_control.iv_server, "c_call")

c_call  == HWaitCall("client", "c_call", "c_sleep", "c_woken")
c_wake  == HWake("client", "c_sleep", "c_woken")
c_clear == HClear("client", "c_woken", "c_start")

\* vm_control->done = 0; memtest(vm_control->data, 1);
c_start ==
    /\ HStart("client", "c_start", "c_verify")
    /\ vm_control' = [vm_control EXCEPT !.done = U32Zero]
    /\ UNCHANGED <<h_dev, wire, test_pmem, h_hist>>
    /\ HsOnly

\* if (test_pmem[n] != (n ^ data)) { ret_val = 1; vm_control->shutdown = 1; goto exit; }
c_verify ==
    /\ h_pc["client"] = "c_verify"
    /\ IF test_pmem[h_loc["client"].n] # Pattern(h_loc["client"].n, h_loc["client"].data)
       THEN /\ vm_control' = [vm_control EXCEPT !.shutdown = 1]
            /\ h_loc' = [h_loc EXCEPT !["client"].ret_val = 1]
            /\ h_pc' = [h_pc EXCEPT !["client"] = "c_check"]
       ELSE /\ vm_control' = vm_control
            /\ h_loc' = [h_loc EXCEPT !["client"].i = Advance(h_loc["client"]).i,
                                      !["client"].n = Advance(h_loc["client"]).n]
            /\ h_pc' = [h_pc EXCEPT !["client"] =
                          IF Advance(h_loc["client"]).fin THEN "c_check" ELSE "c_verify"]
    /\ UNCHANGED <<h_dev, wire, test_pmem, h_hist>>
    /\ HsOnly

\* } while(!vm_control->shutdown);
c_check ==
    /\ h_pc["client"] = "c_check"
    /\ h_pc' = [h_pc EXCEPT !["client"] =
                  IF vm_control.shutdown = 0 THEN "c_seed" ELSE "c_exit"]
    /\ UNCHANGED <<h_dev, wire, vm_control, test_pmem, h_loc, h_hist>>
    /\ HsOnly

(* interrupts *)

\* kvm_ivshmem_interrupt in guest r with status m.status
HDispatch(r, m) ==
    /\ h_dev' = [h_dev EXCEPT ![r] =
                   [sema      |-> Dispatch(m.status, h_dev[r].sema, h_dev[r].event_num).sema,
                    event_num |-> Dispatch(m.status, h_dev[r].sema, h_dev[r].event_num).event_num]]
    /\ wire' = wire \ {m}
    /\ h_hist' = [h_hist EXCEPT !.kick[r] =
                    IF Dispatch(m.status, h_dev[r].sema, h_dev[r].event_num).woke = "event"
                    THEN @ \cup {m.from} ELSE @,
                                !.ext = @ \/ m.from = "ext"]
    /\ UNCHANGED <<h_pc, vm_control, test_pmem, h_loc>>
    /\ HsOnly

\* an interrupt in guest r: a doorbell on the wire, or one raised from outside
h_interrupt(r) ==
    \E m \in { w \in wire : w.to = r } \cup
              { [to |-> r, status |-> st, from |-> "ext"] : st \in HExtStatus } :
        HDispatch(r, m)

\* a signal reaches process r asleep in wait_event_interruptible: the wait
\* ends with -ERESTARTSYS, which the wait_event case discards
HWokenOf == [s_sleep |-> "s_woken", c_sleep0 |-> "c_woken0", c_sleep |-> "c_woken"]

h_signal(r) ==
    /\ h_pc[r] \in DOMAIN HWokenOf
    /\ ~EventCond(h_dev[r].event_num)
    /\ h_pc' = [h_pc EXCEPT ![r] = HWokenOf[h_pc[r]]]
    /\ h_hist' = [h_hist EXCEPT !.sig = TRUE]
    /\ UNCHANGED <<h_dev, wire, vm_control, test_pmem, h_loc>>
    /\ HsOnly

\* delivery of a doorbell written by the peer
h_deliver(r) == \E m \in { w \in wire : w.to = r } : HDispatch(r, m)

ServerNext ==
    \/ s_init \/ s_call \/ s_wake \/ s_clear \/ s_start
    \/ s_write \/ s_done \/ s_ring \/ s_check

ClientNext ==
    \/ c_init \/ c_call0 \/ c_wake0 \/ c_clear0 \/ (\E d \in Seeds : c_seed(d))
    \/ c_ring \/ c_call \/ c_wake \/ c_clear \/ c_start \/ c_verify \/ c_check

HsNext ==
    \/ ServerNext
    \/ ClientNext
    \/ \E r \in Roles : h_interrupt(r)
    \/ \E r \in Roles : h_signal(r)

---------------------------------------------------------------------------
(* The specifications *)

Init == DrvInit /\ IoInit0 /\ HsInit
Next == DrvNext
Spec == Init /\ [][Next]_vars

IOInit == DrvInit /\ IoInit /\ HsInit
IONext == IoNext
IOSpec == IOInit /\ [][IONext]_vars

PIONext == PioNext
PIOSpec == IOInit /\ [][PIONext]_vars

HNext == HsNext
HSpec == Init /\ [][HNext]_vars

\* both processes keep running, and a doorbell on the wire is delivered;
\* nothing obliges anyone to send a signal or to raise an interrupt from outside
HFairSpec ==
    /\ HSpec
    /\ WF_vars(ServerNext)
    /\ WF_vars(ClientNext)
    /\ WF_vars(\E r \in Roles : h_deliver(r))
---------------------------------------------------------------------------
(* Properties of the driver's wait primitives (Spec) *)

\* C1, state part: while the count started at 0 with no later sema_init and no
\* cancellation, completed down() calls never exceed the sema_irq deliveries,
\* and the count is exactly the deliveries not yet taken.
C1_Counts ==
    hist.clean => /\ hist.downs <= hist.deliv
                  /\ sema = hist.deliv - hist.downs

\* C1, step part: a delivery adds exactly one unit; a down() call blocks
\* exactly when every delivery has been taken; a sleeper is released only by
\* a delivery not yet taken, and takes exactly one.
C1_Steps ==
    /\ (hist.clean /\ hist'.clean /\ hist'.deliv = hist.deliv + 1)
          => (sema' = sema + 1 /\ hist'.downs = hist.downs)
    /\ \A t \in Threads :
          /\ (ioctl_down_sema(t) /\ hist.clean)
                => ((pc'[t] = "down_sleep") <=> (hist.deliv = hist.downs))
          /\ (pc[t] = "down_sleep" /\ pc'[t] = "idle" /\ hist.clean /\ hist'.clean)
                => (hist.deliv > hist.downs /\ hist'.downs = hist.downs + 1)

\* C1: from a count of 0, with no later arm and no cancellation, down()
\* completions never exceed sema_irq deliveries and each delivery releases
\* exactly one down(); after two deliveries two down() calls return at once
\* and a third blocks until a further delivery.
C1_SemaCounts == []C1_Counts /\ [][C1_Steps]_vars

\* two deliveries taken by two down() calls that did not block, and a third
\* caller asleep
C1_TwoThenBlock ==
    /\ hist.clean /\ hist.deliv = 2 /\ hist.downs = 2 /\ sema = 0
    /\ ev.kind = "ioctl" /\ ev.cmd = down_sema /\ ev.how = "nowait"
    /\ \E t \in Threads : pc[t] = "down_sleep"

C2_Steps ==
    /\ \A t \in Threads :
          /\ ioctl_wait_event(t)
                => /\ (event_num = 1) => (pc'[t] = "event_woken" /\ how'[t] = "nowait")
                   /\ (event_num = 0) => (pc'[t] = "event_sleep")
          /\ (pc[t] = "event_woken" /\ pc'[t] = "idle") => event_num' = 0
          /\ (pc[t] = "event_sleep" /\ pc'[t] = "event_woken" /\ how'[t] = "slept")
                => event_num = 1
    /\ interrupt(U32FromNat(wait_event_irq)) => event_num' = 1
    /\ (event_num = 0 /\ event_num' = 1)
          => (ev'.kind = "irq" /\ ev'.status = U32FromNat(wait_event_irq))
    /\ (event_num = 1 /\ event_num' = 0)
          => \E t \in Threads : pc[t] = "event_woken" /\ pc'[t] = "idle"

C6_SpuriousNoEffect ==
    [][\A st \in {U32Zero, U32AllOnes} :
          interrupt(st) => /\ ev'.rv = "IRQ_NONE"
                           /\ ev'.woke = "none"
                           /\ UNCHANGED <<sema, event_num, pc, how>>]_vars

\* the handler has run with status 0xFFFFFFFF
C6_AllOnesSeen ==
    ev.kind = "irq" /\ ev.status = U32AllOnes /\ ev.rv = "IRQ_NONE"

\* C7: for every non-spurious status whose low 8 bits are sema_irq, whatever
\* its upper bits, the handler adds one to the count; for every one whose low
\* 8 bits are wait_event_irq it sets the event flag.
C7_OpcodeField ==
    [][\A st \in StatusValues :
          (interrupt(st) /\ st # U32Zero /\ st # U32AllOnes)
             => /\ (st.lo % 256 = sema_irq) => (sema' = sema + 1)
                /\ (st.lo % 256 = wait_event_irq) => (event_num' = 1)]_vars

\* C8: a ring ioctl with opcode c and peer id p < 2^16 writes (p << 16) | c
\* to the Doorbell register.
C8_DoorbellLayout ==
    (ev.kind = "ioctl" /\ ev.cmd \in RingCmds /\ ev.arg.hi = 0)
       => ev.bell = << U32(ev.arg.lo, ev.cmd) >>

---------------------------------------------------------------------------
(* Properties of the handshake (HSpec, HFairSpec) *)

\* C3: with both processes and interrupt delivery scheduled fairly, in a run
\* with no cancellation and no interrupt from outside the pair, the client's
\* first round completes: its verification pass eventually begins.
C3_FirstRound == <>(h_hist.sig \/ h_hist.ext \/ h_pc["client"] = "c_verify")

\* C4: the server is in a write pass (or about to ring) only when the wait
\* that let it through was ended by a doorbell the client rang; stated for the
\* runs in which no interrupt came from outside the pair.
C4_ClientInitiates ==
    ~h_hist.ext =>
       (h_pc["server"] \in {"s_start", "s_write", "s_done", "s_ring"}
           => "client" \in h_hist.rel["server"])

\* C5: the server's write pass and the client's verification pass are never
\* both under way; stated for the runs in which no interrupt came from outside
\* the pair.
C5_PassesDisjoint ==
    ~h_hist.ext =>
       ~ /\ h_pc["server"] = "s_write"
         /\ h_loc["server"].i + h_loc["server"].n > 0
         /\ h_pc["client"] = "c_verify"
         /\ h_loc["client"].i + h_loc["client"].n > 0

---------------------------------------------------------------------------
(* Properties of read and write (IOSpec, PIOSpec) *)

Min(a, b) == IF a < b THEN a ELSE b
RW == {"read", "pread", "write", "pwrite"}

C9_Step ==
    (base_addr = "mapped" /\ io'.op \in RW /\ io'.unc = 0
       /\ io'.off >= 0 /\ io'.off <= ioaddr_size)
    => LET n == Min(io'.len, ioaddr_size - io'.off)
       IN  /\ io'.ret = n
           /\ io'.pos = io'.off + n
           /\ io'.idx = io'.off..(io'.off + n - 1)
           /\ (io'.op \in {"read", "write"}) => (io'.off = f_pos /\ f_pos' = f_pos + n)
           /\ (io'.off = ioaddr_size) => (io'.ret = 0 /\ io'.pos = io'.off /\ mem' = mem)
           /\ (io'.op \in {"read", "pread"})
                 => /\ io'.data = [j \in 1..n |-> mem[io'.off + j - 1]]
                    /\ mem' = mem
           /\ (io'.op \in {"write", "pwrite"})
                 => mem' = [i \in Window |->
                              IF i \in io'.idx THEN io'.data[i - io'.off + 1] ELSE mem[i]]

\* C9: on a mapped window of size S, a read or write at an offset in 0..S
\* (the caller's buffer being accessible) transfers exactly min(length, S -
\* offset) bytes, returns that number and advances the position by it; at
\* offset S it transfers nothing and leaves the position alone.
C9_InRange == [][C9_Step]_vars

\* a write one byte before the end, asking for more than the window holds
C9_Truncated ==
    /\ base_addr = "mapped" /\ io.op = "write" /\ io.unc = 0
    /\ io.off = ioaddr_size - 1 /\ io.len = ioaddr_size + 1
    /\ io.ret = 1 /\ f_pos = ioaddr_size

\* C10: a read or write at an offset at or past the end of the window
\* transfers nothing and leaves the position alone, and no read or write ever
\* touches a byte outside 0..S-1.
C10_PastEnd ==
    (base_addr = "mapped" /\ io.op \in RW /\ io.unc = 0)
       => /\ io.idx \subseteq Window
          /\ (io.off >= ioaddr_size) => (io.ret = 0 /\ io.pos = io.off /\ io.idx = {})

C11_Step ==
    (/\ base_addr = "mapped"
     /\ io.op = "pwrite" /\ io.off = 0 /\ io.len <= ioaddr_size /\ io.unc = 0
     /\ io'.op = "pread" /\ io'.off = 0 /\ io'.len = io.len /\ io'.unc = 0)
    => /\ io.ret = io.len
       /\ io'.ret = io.len
       /\ io'.data = io.data

\* C11: on a mapped window of size S, a write at offset 0 of a payload P with
\* len(P) <= S followed directly by a read at offset 0 of len(P) bytes (both
\* buffers accessible) delivers exactly P, and both calls return len(P).
C11_RoundTrip == [][C11_Step]_vars

\* a payload that fills the window has been written at 0 and read back
C11_ReadBack ==
    /\ base_addr = "mapped" /\ io.op = "pread" /\ io.off = 0 /\ io.unc = 0
    /\ io.len = ioaddr_size /\ io.ret = ioaddr_size
    /\ io.data = [j \in 1..ioaddr_size |-> j % (MaxByte + 1)]

---------------------------------------------------------------------------
(* Properties of cancelled waits (Spec) *)

\* C12: a down() or wait_event() whose sleep was ended by a signal returns a
\* failure (a negative value) to its caller, and an interrupted down() leaves
\* the count as it was.
C12_InterruptedFails ==
    [][\A t \in Threads :
          /\ signal_down(t) => (ev'.ret < 0 /\ sema' = sema)
          /\ (event_clear(t) /\ how[t] = "intr") => ev'.ret < 0]_vars


\* C13: the return of a down() or wait_event() call that was cancelled while
\* asleep leaves the semaphore count and the event flag as they are at that
\* moment, so that a delivery made before, during or after the call is still
\* there for the next waiter.
C13_CancelLeavesState ==
    [][\A t \in Threads :
          /\ signal_down(t) => UNCHANGED <<sema, event_num>>
          /\ (event_clear(t) /\ how[t] = "intr") => UNCHANGED <<sema, event_num>>]_vars

---------------------------------------------------------------------------
(* Properties of the memory test (HSpec) *)

\* the slot the client's verification pass is looking at does not hold n ^ data
Mismatch ==
    /\ h_pc["client"] = "c_verify"
    /\ test_pmem[h_loc["client"].n] # Pattern(h_loc["client"].n, h_loc["client"].data)

\* C14: when the verification pass meets a slot that does not hold n XOR d it
\* stops there with a failure and sets shutdown, and the client then leaves
\* its round loop: it goes to no further round and makes no further ring call.
C14_MismatchStops ==
    [][/\ (Mismatch /\ c_verify)
             => /\ h_loc'["client"].ret_val = 1
                /\ h_loc'["client"].n = h_loc["client"].n
                /\ vm_control'.shutdown = 1
                /\ h_pc'["client"] = "c_check"
       /\ (h_pc["client"] = "c_check" /\ h_loc["client"].ret_val = 1)
             => h_pc'["client"] \in {"c_check", "c_exit"}]_vars


\* every slot holds n XOR d
Filled(d) == \A n \in Slots : test_pmem[n] = Xor(n, d)

C15_Step ==
    (h_pc["client"] = "c_verify" /\ Filled(h_loc["client"].data) /\ c_verify)
       => /\ h_loc'["client"].ret_val = 0
          /\ vm_control'.shutdown = vm_control.shutdown
          /\ h_pc'["client"] \in {"c_verify", "c_check"}

\* C15: when the server's write pass with seed d has finished, every slot n
\* holds n XOR d; and a step of the client's verification pass with seed d
\* over a window that holds n XOR d in every slot finds no mismatch and leaves
\* the shutdown flag alone.
C15_PassAgrees ==
    /\ [](h_pc["server"] = "s_done" => Filled(h_loc["server"].data))
    /\ [][C15_Step]_vars

\* the server has written a pass with seed 1 and the client has verified a
\* whole pass with the same seed without a failure
C15_Verified ==
    /\ h_pc["server"] \in {"s_done", "s_ring", "s_check"} /\ h_loc["server"].data = 1
    /\ h_pc["client"] = "c_check" /\ h_loc["client"].data = 1
    /\ h_loc["client"].i = TEST_LOOPS /\ h_loc["client"].ret_val = 0
    /\ Filled(1) /\ vm_control.shutdown = 0

---------------------------------------------------------------------------
(* Properties of the unmapped window and of lseek (IOSpec) *)

\* C16: with a window that was never mapped, a read or write (of at least one
\* byte) returns a failure (a negative value, which a transfer of zero bytes
\* never returns), moves the position nowhere and touches no window byte.
C16_Unmapped ==
    (base_addr = "NULL" /\ io.op \in RW /\ io.len > 0)
       => (io.ret < 0 /\ io.pos = io.off /\ io.idx = {})


\* C17: a SEEK_SET or SEEK_CUR whose target t is not negative leaves the file
\* position at min(t, window size) and returns that position to the caller.
C17_SeekClamps ==
    [][\A o \in (0 - MaxNeg)..(ioaddr_size + MaxOver), g \in {"SEEK_SET", "SEEK_CUR"} :
          LET t == IF g = "SEEK_CUR" THEN o + f_pos ELSE o
          IN  (sys_lseek(o, g) /\ t >= 0)
                 => (f_pos' = Min(t, ioaddr_size) /\ io'.ret = f_pos')]_vars

---------------------------------------------------------------------------
(* Properties of the dispatcher against the callers (Spec) *)

\* C18: an event delivery dispatched after a wait_event() caller was released
\* by an earlier one is not erased when that caller clears the flag: the flag
\* is still set when the caller has returned.
C18_ClearKeepsLater ==
    [][\A t \in Threads :
          (event_clear(t) /\ ev.kind = "irq" /\ ev.woke = "event" /\ t \in ev.late)
             => event_num' = 1]_vars


C19_Step ==
    /\ (event_num # 1 /\ event_num' = 1) => \E st \in StatusValues : interrupt(st)
    /\ (sema' > sema)
          => \/ \E st \in StatusValues : interrupt(st)
             \/ \E t \in Threads, a \in ArmArgs : ioctl_set_sema(t, a)

\* C19: every step in which the event flag goes from clear to set, or the
\* semaphore count grows without being overwritten by set_sema, is a run of
\* the interrupt handler; no ioctl sets the flag or increments the count.
C19_OnlyDispatcher == [][C19_Step]_vars

\* the handler has set the flag and incremented the count twice
C19_BothDone ==
    /\ ev.kind = "irq" /\ ev.woke = "sema" /\ hist.clean /\ hist.deliv = 2
    /\ sema = 2 /\ event_num = 1

\* C20: a run of the handler with a status that is not spurious and whose low
\* byte is neither sema_irq nor wait_event_irq returns IRQ_HANDLED, leaves the
\* semaphore count and the event flag as they were and wakes nobody.
C20_UnknownIgnored ==
    [][\A st \in StatusValues :
          (/\ st # U32Zero /\ st # U32AllOnes
           /\ st.lo % 256 # sema_irq /\ st.lo % 256 # wait_event_irq
           /\ ev'.kind = "irq" /\ interrupt(st))
          => /\ ev'.rv = "IRQ_HANDLED"
             /\ ev'.woke = "none"
             /\ UNCHANGED <<sema, event_num, pc, how>>]_vars

\* the handler has run with the status 0x00010002
C20_EmptySeen ==
    ev.kind = "irq" /\ ev.status = U32(1, empty) /\ ev.rv = "IRQ_HANDLED"


---------------------------------------------------------------------------
(* Properties of shutdown and of commands outside the enumeration *)

\* C21: under fair scheduling of both processes, once the shutdown flag is
\* set while the server is past its initial store to it, both role loops
\* terminate: the client leaves its loop and the server leaves its loop
\* rather than staying in wait_event().
C21_ShutdownTerminates ==
    (vm_control.shutdown = 1 /\ h_pc["server"] # "s_init")
       ~> (h_pc["server"] = "s_exit" /\ h_pc["client"] = "c_exit")

\* the codes of enum ivshmem_ioctl
OpcodeEnum == set_sema..sema_irq

\* C22: every step that records the return of a kvm_ivshmem_ioctl call whose
\* command code is outside the enumeration 0..7 has written nothing to the
\* Doorbell register, leaves the semaphore count, the event flag and every
\* thread where they were, and returns 0.
C22_OutOfEnum ==
    [][(ev' # ev /\ ev'.kind = "ioctl" /\ ev'.cmd \notin OpcodeEnum)
          => /\ ev'.bell = <<>>
             /\ ev'.ret = 0
             /\ UNCHANGED <<sema, event_num, pc, how>>]_vars

\* ioctl(fd, 8, peer << 16) has returned while the count and the flag were set
C22_DoorbellCodeSeen ==
    /\ ev.kind = "ioctl" /\ ev.cmd = IOCTL_DOORBELL /\ ev.arg = U32(MaxPeer, 0)
    /\ sema > 0 /\ event_num = 1

===========================================================================
